---------------------------- MODULE Spec2Model ----------------------------
(***************************************************************************)
(* A model of the authentication and ownership layer of backend-api        *)
(* (src/main.py): credential dispatch, bearer-token issue and validation,  *)
(* registration, and the database/schedule handlers.                       *)
(*                                                                         *)
(* Conventions.                                                            *)
(*  - A Python string is a sequence of one-character strings.              *)
(*  - A Python value that may be None is a set: {} is None, {v} is v.      *)
(*  - Time is counted in ticks, TicksPerSecond of them to a second; a JWT  *)
(*    "exp" claim is in whole seconds, as jose writes it.                  *)
(*  - crud.*, models.* and schemas.* are not part of src/; the store       *)
(*    operators below follow the specification's description of them.      *)
(***************************************************************************)
EXTENDS Integers, Sequences, FiniteSets

VARIABLES
    users,      \* rows of the Users table
    databases,  \* rows of the calendar-database table
    schedules,  \* rows of the schedule table
    issued,     \* bearer tokens handed out, each with its issue time and ttl
    now,        \* datetime.utcnow(), in ticks
    nextUuid,   \* the next value uuid.uuid4() returns
    reqs,       \* number of requests handled so far
    last,       \* the request handled last and its response
    ident,      \* the identifier handed to authenticate_user (dispatch study)
    pending,    \* requests in flight: started and not yet answered
    audit       \* per created row: the request that created it (history)

vars == <<users, databases, schedules, issued, now, nextUuid, reqs, last,
          ident, pending, audit>>

---------------------------------------------------------------------------
(* Python values *)

None == {}

Some(v) == {v}

TheValue(opt) == CHOOSE v \in opt : TRUE

---------------------------------------------------------------------------
(* Program constants, src/main.py:28-30,99 *)

SECRET_KEY == "d01e3f9110d397d00cb5ffc2cd498180a16c3999191a032ef404424daec9ada4"

ALGORITHM == "HS256"

ACCESS_TOKEN_EXPIRE_MINUTES == 30

DefaultExpireMinutes == 15

(* Resolution of the clock: ticks per second. *)
TicksPerSecond == 2

minutes(m) == m * 60 * TicksPerSecond

---------------------------------------------------------------------------
(* The pattern of authenticate_user, src/main.py:80                        *)
(*   ^[a-zA-Z0-9_.+-]+@[a-zA-Z0-9-]+\.[a-zA-Z0-9-.]+$                      *)
(* "a" and "b" stand for the letters and digits, "!" for every character   *)
(* that no class of the pattern holds, "\n" is the line feed.              *)

AlNum == {"a", "b"}

LocalClass == AlNum \cup {"_", ".", "+", "-"}

LabelClass == AlNum \cup {"-"}

RestClass == AlNum \cup {"-", "."}

(* The matcher as an automaton over the positions of the pattern:          *)
(* 0 start, 1 inside the local part, 2 after "@", 3 inside the first       *)
(* label, 4 after the ".", 5 inside the rest (the only accepting one).     *)
ReStep(q, c) ==
    CASE q = 0 -> IF c \in LocalClass THEN {1} ELSE {}
      [] q = 1 -> (IF c \in LocalClass THEN {1} ELSE {})
                  \cup (IF c = "@" THEN {2} ELSE {})
      [] q = 2 -> IF c \in LabelClass THEN {3} ELSE {}
      [] q = 3 -> (IF c \in LabelClass THEN {3} ELSE {})
                  \cup (IF c = "." THEN {4} ELSE {})
      [] q = 4 -> IF c \in RestClass THEN {5} ELSE {}
      [] q = 5 -> IF c \in RestClass THEN {5} ELSE {}

RECURSIVE ReRun(_, _, _)
ReRun(Q, s, i) ==
    IF i > Len(s) THEN Q
    ELSE ReRun(UNION { ReStep(q, s[i]) : q \in Q }, s, i + 1)

ReMatchMutDotlessDomain(s) ==
    \/ \E q \in ReRun({0}, s, 1) : q \in {3, 5}
    \/ /\ Len(s) > 0
       /\ s[Len(s)] = "\n"
       /\ \E q \in ReRun({0}, SubSeq(s, 1, Len(s) - 1), 1) : q \in {3, 5}

(* re.match with the pattern. Python's "$" matches at the end of the      *)
(* string and also just before a line feed that ends the string.           *)
re_match(s) ==
    \/ 5 \in ReRun({0}, s, 1)
    \/ /\ Len(s) > 0
       /\ s[Len(s)] = "\n"
       /\ 5 \in ReRun({0}, SubSeq(s, 1, Len(s) - 1), 1)

---------------------------------------------------------------------------
(* The store (crud.py, models.py), after the specification:                *)
(* lookups by email and by name; an insert that the table's uniqueness     *)
(* constraint on Name may refuse. The specification leaves the uniqueness  *)
(* of Email to the lookup register_user makes before it inserts.           *)

get_user_by_email(db, email) ==
    IF \E u \in db : u.Email = email
    THEN Some(CHOOSE u \in db : u.Email = email)
    ELSE None

get_user_by_name(db, name) ==
    IF \E u \in db : u.Name = name
    THEN Some(CHOOSE u \in db : u.Name = name)
    ELSE None

UniqueViolation(db, user) == \E u \in db : u.Name = user.Name

(* ok = FALSE stands for the IntegrityError of a refused insert. *)
create_user(db, user) ==
    IF UniqueViolation(db, user)
    THEN [ok |-> FALSE, db |-> db]
    ELSE [ok |-> TRUE, db |-> db \cup {user}]

crud_create_database(rows, database) == rows \cup {database}

crud_get_databases(rows, owner_id) == { d \in rows : d.Owner = owner_id }

crud_create_schedule(rows, schedule) == rows \cup {schedule}

crud_delete_schedule(rows, schedule_id) ==
    { s \in rows : Some(s.UUID) # schedule_id }

crud_get_schedules(rows, user_id) == { s \in rows : s.Owner = user_id }

---------------------------------------------------------------------------
(* authenticate_user, src/main.py:79-90 *)

(* The store calls authenticate_user makes for an identifier, in order. *)
authenticate_calls(id) ==
    IF re_match(id)
    THEN <<[fn |-> "get_user_by_email", key |-> id]>>
    ELSE <<[fn |-> "get_user_by_name", key |-> id]>>

crud_call(db, call) ==
    IF call.fn = "get_user_by_email"
    THEN get_user_by_email(db, call.key)
    ELSE get_user_by_name(db, call.key)

(* The user the calls leave in the variable "user": the last one's result. *)
RECURSIVE RunCalls(_, _, _, _)
RunCalls(db, calls, i, user) ==
    IF i > Len(calls) THEN user
    ELSE RunCalls(db, calls, i + 1, crud_call(db, calls[i]))

authenticate_user(db, id, password) ==
    LET user == RunCalls(db, authenticate_calls(id), 1, None) IN
    IF user = None THEN None
    ELSE IF password # TheValue(user).PW THEN None
    ELSE user

---------------------------------------------------------------------------
(* Tokens: jose's jwt.encode / jwt.decode as main.py calls them            *)
(* (src/main.py:102,131), create_access_token (93-104) and the validation  *)
(* of get_current_user (124-147).                                          *)

(* The HS256 signature of a payload under a key. *)
HS256(key, payload) == <<ALGORITHM, key, payload>>

(* dict.get: None for a missing key. *)
dict_get(d, k) == IF k \in DOMAIN d THEN Some(d[k]) ELSE None

(* to_encode.update({"exp": expire}) on a copy of data. *)
dict_update_exp(data, expire) ==
    [k \in DOMAIN data \cup {"exp"} |-> IF k = "exp" THEN expire ELSE data[k]]

(* jwt.encode turns a datetime "exp" into whole seconds since the epoch    *)
(* (timegm of its utctimetuple: the fraction of a second is dropped).      *)
to_seconds(t) == t \div TicksPerSecond

jwt_encode(claims, key) ==
    LET payload == [k \in DOMAIN claims |->
                       IF k = "exp" THEN to_seconds(claims[k]) ELSE claims[k]]
    IN  [payload |-> payload, sig |-> HS256(key, payload)]

(* jwt.decode: None stands for the JWTError it raises, on a signature that *)
(* does not verify and on an "exp" earlier than the current second.        *)
jwt_decode(token, key, t) ==
    IF token.sig # HS256(key, token.payload) THEN None
    ELSE IF "exp" \in DOMAIN token.payload /\ token.payload.exp < to_seconds(t)
         THEN None
    ELSE Some(token.payload)

(* "if expires_delta:" is false for None and for timedelta(0). *)
truthy_delta(expires_delta) ==
    expires_delta # None /\ TheValue(expires_delta) # 0

CreateAccessTokenMutDefault30(data, expires_delta, t) ==
    LET expire == IF truthy_delta(expires_delta)
                  THEN t + TheValue(expires_delta)
                  ELSE t + minutes(ACCESS_TOKEN_EXPIRE_MINUTES)
    IN  jwt_encode(dict_update_exp(data, expire), SECRET_KEY)

CreateAccessTokenMutDropsSub(data, expires_delta, t) ==
    LET expire == IF truthy_delta(expires_delta)
                  THEN t + TheValue(expires_delta)
                  ELSE t + minutes(DefaultExpireMinutes)
    IN  jwt_encode([exp |-> expire], SECRET_KEY)

create_access_token(data, expires_delta, t) ==
    LET expire == IF truthy_delta(expires_delta)
                  THEN t + TheValue(expires_delta)
                  ELSE t + minutes(DefaultExpireMinutes)
    IN  jwt_encode(dict_update_exp(data, expire), SECRET_KEY)

(* Lines 130-137: the subject of a token that validates; None for the      *)
(* credentials_exception (a JWTError, or a payload without "sub").         *)
token_username(token, t) ==
    LET payload == jwt_decode(token, SECRET_KEY, t) IN
    IF payload = None THEN None
    ELSE dict_get(TheValue(payload), "sub")

Unauthorized(detail) ==
    [status |-> 401, detail |-> detail, www_authenticate |-> "Bearer"]

(* get_current_user as a dependency: the user, or the 401 it raises.       *)
(* bearer is the Authorization header's token, None when there is none     *)
(* (OAuth2PasswordBearer then answers 401 before the function runs).       *)
get_current_user(db, bearer, t) ==
    IF bearer = None THEN Unauthorized("Not authenticated")
    ELSE LET username == token_username(TheValue(bearer), t) IN
         IF username = None THEN Unauthorized("Could not validate credentials")
         ELSE LET user == get_user_by_email(db, TheValue(username)) IN
              IF user = None
              THEN Unauthorized(<<"User not found", TheValue(username)>>)
              ELSE [status |-> 200, user |-> TheValue(user)]

(* login_for_access_token, src/main.py:107-120 *)
LoginMutTellsUnknown(db, username, password, t) ==
    LET user == authenticate_user(db, username, password) IN
    IF user = None
    THEN IF RunCalls(db, authenticate_calls(username), 1, None) = None
         THEN Unauthorized("Unknown user")
         ELSE Unauthorized("Incorrect email or password")
    ELSE [status |-> 200,
          access_token |->
              Some(create_access_token([sub |-> TheValue(user).Email],
                       Some(minutes(ACCESS_TOKEN_EXPIRE_MINUTES)), t)),
          token_type |-> "Bearer"]

login_for_access_token(db, username, password, t) ==
    LET user == authenticate_user(db, username, password) IN
    IF user = None THEN Unauthorized("Incorrect email or password")
    ELSE [status |-> 200,
          access_token |->
              Some(create_access_token([sub |-> TheValue(user).Email],
                       Some(minutes(ACCESS_TOKEN_EXPIRE_MINUTES)), t)),
          token_type |-> "Bearer"]

---------------------------------------------------------------------------
(* Bounds and input sets *)

(* Long enough for the shortest address with a dot in its domain and one   *)
(* more character: a final line feed, a second dot, a trailing dot.        *)
MaxIdLen == 6

(* One character of each kind the pattern tells apart: "a" for the         *)
(* letters, digits and "-" (in every class), "_" (in the local part's      *)
(* class only), "." (in the local part's and the rest's class), "@", and   *)
(* the line feed; the last two, where the pattern does not expect them,    *)
(* also stand for the characters in no class.                              *)
DispatchChars == {"a", "_", ".", "@", "\n"}

RECURSIVE StringsOfLen(_, _)
StringsOfLen(A, n) ==
    IF n = 0 THEN {<<>>}
    ELSE { Append(s, c) : s \in StringsOfLen(A, n - 1), c \in A }

StringsUpTo(A, n) == UNION { StringsOfLen(A, k) : k \in 0..n }

Passwords == {"p1", "p2"}

EmailA == <<"a", "@", "a", ".", "a">>

EmailDotless == <<"a", "@", "a">>

(* A well-formed address whose local part holds a character outside the   *)
(* pattern's class. *)
EmailOdd == <<"!", "@", "a", ".", "a">>

NameA == <<"a", "l">>

Idle == [op |-> "none"]

(* The store of the dispatch study: one registered user. *)
DispatchUsers ==
    {[UUID |-> 1, Name |-> NameA, Email |-> EmailA, PW |-> "p1"]}

---------------------------------------------------------------------------
(* Dispatch study: authenticate_user applied to every identifier of at     *)
(* most MaxIdLen characters.                                               *)

InitDispatch ==
    /\ users = DispatchUsers
    /\ databases = {}
    /\ schedules = {}
    /\ issued = {}
    /\ now = 0
    /\ nextUuid = 2
    /\ reqs = 0
    /\ last = Idle
    /\ ident \in StringsUpTo(DispatchChars, MaxIdLen)
    /\ pending = <<>>
    /\ audit = {}

Authenticate ==
    /\ last = Idle
    /\ \E password \in Passwords :
          last' = [op |-> "authenticate_user",
                   id |-> ident,
                   password |-> password,
                   calls |-> authenticate_calls(ident),
                   result |-> authenticate_user(users, ident, password)]
    /\ UNCHANGED <<users, databases, schedules, issued, now, nextUuid, reqs,
                   ident, pending, audit>>

NextDispatch == Authenticate

SpecDispatch == InitDispatch /\ [][NextDispatch]_vars

(* The pattern as the specification words it: a local part of one or more  *)
(* letters, digits, "_", ".", "+", "-"; "@"; a domain of one or more       *)
(* non-empty letter/digit/hyphen segments separated by dots.               *)
SpecPattern(s) ==
    \E i \in 2..(Len(s) - 1) :
        /\ s[i] = "@"
        /\ \A k \in 1..(i - 1) : s[k] \in LocalClass
        /\ \A k \in (i + 1)..Len(s) : s[k] \in LabelClass \cup {"."}
        /\ s[i + 1] # "."
        /\ s[Len(s)] # "."
        /\ \A k \in (i + 1)..(Len(s) - 1) : ~(s[k] = "." /\ s[k + 1] = ".")

(* The pattern of the code, said without the automaton: a local part as    *)
(* above; "@"; one or more letters, digits or hyphens; "."; one or more    *)
(* letters, digits, hyphens or dots; then the end, or one final line feed. *)
StripFinalNewline(s) ==
    IF Len(s) > 0 /\ s[Len(s)] = "\n" THEN SubSeq(s, 1, Len(s) - 1) ELSE s

CodePatternExact(t) ==
    \E i \in 2..Len(t), j \in 4..Len(t) :
        /\ i + 1 < j
        /\ j < Len(t)
        /\ t[i] = "@"
        /\ t[j] = "."
        /\ \A k \in 1..(i - 1) : t[k] \in LocalClass
        /\ \A k \in (i + 1)..(j - 1) : t[k] \in LabelClass
        /\ \A k \in (j + 1)..Len(t) : t[k] \in RestClass

CodePattern(s) == CodePatternExact(s) \/ CodePatternExact(StripFinalNewline(s))

EmailCall(id) == <<[fn |-> "get_user_by_email", key |-> id]>>

NameCall(id) == <<[fn |-> "get_user_by_name", key |-> id]>>

(* C7 as stated: an identifier is looked up by email exactly when it       *)
(* matches the pattern as the specification words it, and by name          *)
(* otherwise.                                                              *)
C7_AsStated ==
    last.op = "authenticate_user" =>
        last.calls = IF SpecPattern(last.id) THEN EmailCall(last.id)
                     ELSE NameCall(last.id)

(* C7 amended: authenticate_user makes exactly one lookup per call, with   *)
(* the identifier as its key: by email exactly when the identifier is a    *)
(* local part, "@", a non-empty letter/digit/hyphen label, ".", and one or *)
(* more letters, digits, hyphens or dots, optionally followed by one final *)
(* line feed; by name in every other case.                                 *)
C7_Dispatch ==
    last.op = "authenticate_user" =>
        last.calls = IF CodePattern(last.id) THEN EmailCall(last.id)
                     ELSE NameCall(last.id)

(* The registered user's address followed by a line feed was looked up by *)
(* email, line feed included, and found nobody; the specification's        *)
(* pattern does not hold of it, the code's does.                           *)
C7_Witness ==
    /\ last.op = "authenticate_user"
    /\ last.id = Append(EmailA, "\n")
    /\ last.password = "p1"
    /\ CodePattern(last.id)
    /\ ~ SpecPattern(last.id)
    /\ last.calls = EmailCall(last.id)
    /\ last.result = None
    /\ authenticate_user(users, EmailA, "p1") # None

---------------------------------------------------------------------------
(* Token study: one token, issued by a direct call of create_access_token  *)
(* or by login, followed through the clock and the validator.              *)

MaxSubTicks == 3

MaxClockMinutes == 45

(* The expires_delta values of direct calls: absent, zero, a tick either   *)
(* way, a second, and login's own. *)
Deltas ==
    {None, Some(0), Some(1), Some(0 - 1), Some(TicksPerSecond),
     Some(0 - TicksPerSecond), Some(minutes(ACCESS_TOKEN_EXPIRE_MINUTES))}

EmptyDict == <<>>

TokenData == {[sub |-> EmailA], [sub |-> <<>>], EmptyDict}

InitToken ==
    /\ users = DispatchUsers
    /\ databases = {}
    /\ schedules = {}
    /\ issued = {}
    /\ now = 0
    /\ nextUuid = 2
    /\ reqs = 0
    /\ last = Idle
    /\ ident = <<>>
    /\ pending = <<>>
    /\ audit = {}

TickSmall ==
    /\ now % minutes(DefaultExpireMinutes) < MaxSubTicks
    /\ now' = now + 1
    /\ UNCHANGED <<users, databases, schedules, issued, nextUuid, reqs, last,
                   ident, pending, audit>>

TickBig ==
    /\ now + minutes(DefaultExpireMinutes) <= minutes(MaxClockMinutes) + MaxSubTicks
    /\ now' = now + minutes(DefaultExpireMinutes)
    /\ UNCHANGED <<users, databases, schedules, issued, nextUuid, reqs, last,
                   ident, pending, audit>>

(* A direct call create_access_token(data, expires_delta). *)
IssueToken ==
    /\ issued = {}
    /\ \E data \in TokenData, delta \in Deltas :
          issued' = {[jwt |-> create_access_token(data, delta, now),
                      iat |-> now, delta |-> delta, data |-> data,
                      via |-> "create_access_token"]}
    /\ UNCHANGED <<users, databases, schedules, now, nextUuid, reqs, last,
                   ident, pending, audit>>

(* POST /login with the registered user's credentials, right or wrong. *)
LoginToken ==
    /\ issued = {}
    /\ \E id \in {EmailA, NameA, EmailDotless}, password \in Passwords :
          LET resp == login_for_access_token(users, id, password, now) IN
          /\ resp.status = 200
          /\ resp.access_token # None
          /\ issued' = {[jwt |-> TheValue(resp.access_token),
                         iat |-> now,
                         delta |-> Some(minutes(ACCESS_TOKEN_EXPIRE_MINUTES)),
                         data |-> [sub |-> TheValue(authenticate_user(users, id, password)).Email],
                         via |-> "login"]}
    /\ UNCHANGED <<users, databases, schedules, now, nextUuid, reqs, last,
                   ident, pending, audit>>

(* GET /users/me/ with the token. *)
Validate ==
    /\ \E tok \in issued :
          last' = [op |-> "validate", tok |-> tok, at |-> now,
                   username |-> token_username(tok.jwt, now),
                   response |-> get_current_user(users, Some(tok.jwt), now)]
    /\ UNCHANGED <<users, databases, schedules, issued, now, nextUuid, reqs,
                   ident, pending, audit>>

NextToken == TickSmall \/ TickBig \/ IssueToken \/ LoginToken \/ Validate

SpecToken == InitToken /\ [][NextToken]_vars

(* The ttl a caller asked for, in ticks: the default when none was given. *)
RequestedTtl(tok) ==
    IF tok.delta = None THEN minutes(DefaultExpireMinutes) ELSE TheValue(tok.delta)

Accepted(l) == l.username # None

InvalidToken(l) ==
    /\ l.username = None
    /\ l.response = Unauthorized("Could not validate credentials")

(* C2: a token issued for a subject and presented before the clock has    *)
(* passed its expiry (issue time plus the ttl asked for, the default when  *)
(* none was given) is accepted, and the subject it yields is exactly the   *)
(* one it was issued for.                                                  *)
C2_RoundTrip ==
    (/\ last.op = "validate"
     /\ "sub" \in DOMAIN last.tok.data
     /\ last.at <= last.tok.iat + RequestedTtl(last.tok))
    => /\ last.username = Some(last.tok.data.sub)
       /\ last.response.status = 200
              <=> get_user_by_email(users, last.tok.data.sub) # None

(* A token for the registered user's email, presented at the instant it    *)
(* was issued, came back as that email and resolved to the user.           *)
C2_Witness ==
    /\ last.op = "validate"
    /\ last.tok.via = "create_access_token"
    /\ last.tok.data = [sub |-> EmailA]
    /\ last.at = last.tok.iat
    /\ last.username = Some(EmailA)
    /\ last.response.status = 200
    /\ last.response.user.Email = EmailA

(* C3 as stated: a token issued with ttl = 0 is rejected with InvalidToken;*)
(* so is any token presented after the clock has passed its exp; and no    *)
(* token is accepted later than its issue time plus the ttl it was issued  *)
(* with.                                                                   *)
C3_AsStated ==
    last.op = "validate" =>
        /\ last.tok.delta = Some(0) => InvalidToken(last)
        /\ to_seconds(last.at) > last.tok.jwt.payload.exp => InvalidToken(last)
        /\ Accepted(last) => last.at <= last.tok.iat + RequestedTtl(last.tok)

(* C9 as stated: a token issued without an explicit ttl expires 30 minutes *)
(* after it was issued, like a token issued by login.                      *)
C9_AsStated ==
    \A tok \in issued :
        (tok.delta = None \/ tok.via = "login") =>
            tok.jwt.payload.exp
                = to_seconds(tok.iat + minutes(ACCESS_TOKEN_EXPIRE_MINUTES))

(* C9 amended: a token issued without an explicit ttl carries              *)
(* exp = issue time + 15 minutes (in whole seconds); a token issued by     *)
(* login carries exp = issue time + 30 minutes.                            *)
C9_DefaultTtl ==
    \A tok \in issued :
        /\ tok.delta = None =>
              tok.jwt.payload.exp
                  = to_seconds(tok.iat + minutes(DefaultExpireMinutes))
        /\ tok.via = "login" =>
              tok.jwt.payload.exp
                  = to_seconds(tok.iat + minutes(ACCESS_TOKEN_EXPIRE_MINUTES))

(* A token issued without a ttl was still accepted 15 minutes later and    *)
(* refused a second after that.                                            *)
C9_Witness ==
    /\ last.op = "validate"
    /\ last.tok.delta = None
    /\ last.tok.iat = 1
    /\ last.at = minutes(DefaultExpireMinutes) + 1
    /\ Accepted(last)
    /\ ~ Accepted([last EXCEPT !.username =
                      token_username(last.tok.jwt, last.at + TicksPerSecond)])

---------------------------------------------------------------------------
(* The handlers of src/main.py:150-190 as functions of the tables, the     *)
(* request and the values uuid.uuid4() and datetime.utcnow() return.       *)

UserView(u) == [UUID |-> u.UUID, Name |-> u.Name, Email |-> u.Email]

(* register_user, src/main.py:150-156, in its two store accesses: the      *)
(* lookup of line 152 and the insert of lines 155-156. The handler has no  *)
(* await: the two run in one step of the event loop.                       *)
RegisterLookupMutByName(db, user) == get_user_by_name(db, user.Name)

register_lookup(db, user) == get_user_by_email(db, user.Email)

DuplicateEmail == [status |-> 400, detail |-> "Email already registered"]

register_insert(db, user, uuid) ==
    LET u == [user EXCEPT !.UUID = uuid]
        r == create_user(db, u)
    IN  [db |-> r.db,
         uuids |-> 1,
         response |-> IF r.ok THEN [status |-> 200, user |-> UserView(u)]
                      ELSE [status |-> 500, detail |-> "Internal Server Error"]]

RegisterMutNoLookup(db, user, uuid) == register_insert(db, user, uuid)

register_user(db, user, uuid) ==
    IF register_lookup(db, user) # None
    THEN [db |-> db, uuids |-> 0, response |-> DuplicateEmail]
    ELSE register_insert(db, user, uuid)

(* str.replace(' ', '_') *)
replace_spaces(s) == [i \in DOMAIN s |-> IF s[i] = " " THEN "_" ELSE s[i]]

(* create_database, src/main.py:159-165, once get_current_user returned. *)
CreateDatabaseMutTrustsBody(rows, database, current_user, uuid) ==
    crud_create_database(rows,
        [database EXCEPT !.UUID = uuid,
                         !.DatabaseName = replace_spaces(database.DatabaseName)])

create_database(rows, database, current_user, uuid) ==
    crud_create_database(rows,
        [database EXCEPT !.UUID = uuid,
                         !.DatabaseName = replace_spaces(database.DatabaseName),
                         !.Owner = current_user.UUID])

(* create_schedule, src/main.py:173-178 *)
create_schedule(rows, schedule, current_user, uuid) ==
    crud_create_schedule(rows,
        [schedule EXCEPT !.UUID = uuid, !.Owner = current_user.UUID])

(* delete_schedule, src/main.py:183-185, once the request's body has      *)
(* arrived. rq_body is what rq.json() makes of it: a JSON object (a dict),  *)
(* another JSON value such as [] (rq_body.get then raises AttributeError), *)
(* or no JSON at all (rq.json() raises); the last two are answered 500     *)
(* without a store call. The Authorization header (bearer) is never read.  *)
ServerError == [status |-> 500, detail |-> "Internal Server Error"]

DeleteScheduleMutOwnerWhenToken(db, rows, bearer, rq_body, t) ==
    LET who == get_current_user(db, bearer, t) IN
    IF rq_body.kind # "object" THEN [rows |-> rows, response |-> ServerError]
    ELSE IF bearer = None
         THEN [rows |-> crud_delete_schedule(rows, dict_get(rq_body.fields, "UUID")),
               response |-> [status |-> 200]]
    ELSE IF who.status # 200 THEN [rows |-> rows, response |-> who]
    ELSE [rows |-> { s \in rows :
                       ~ (Some(s.UUID) = dict_get(rq_body.fields, "UUID")
                          /\ s.Owner = who.user.UUID) },
          response |-> [status |-> 200]]

delete_schedule(db, rows, bearer, rq_body, t) ==
    IF rq_body.kind # "object"
    THEN [rows |-> rows, response |-> ServerError]
    ELSE [rows |-> crud_delete_schedule(rows, dict_get(rq_body.fields, "UUID")),
          response |-> [status |-> 200]]

---------------------------------------------------------------------------
(* The API on one event loop, at most MaxRequests requests. A handler runs *)
(* from one await to the next without another request's step in between.   *)
(* register, login and /users/me/ are one step each. The routes guarded by *)
(* Depends(get_current_user) are two: the dependency is awaited before the *)
(* handler body starts. delete_schedule awaits its body and is two as      *)
(* well. Up to MaxInFlight requests wait between their steps at a time;    *)
(* the clock and the other requests go on meanwhile.                       *)

MaxRequests == 4

MaxInFlight == 2

ApiEmails == {EmailA, EmailOdd}

ApiNames == {NameA, EmailOdd}

LoginIds == ApiEmails \cup ApiNames

DatabaseNames == {<<"m", "y", " ", "d", "b">>}

(* A token an attacker signs with a key of their own. *)
Forged(sub) ==
    LET payload == [sub |-> sub, exp |-> to_seconds(minutes(MaxClockMinutes)) + 1]
    IN  [payload |-> payload, sig |-> HS256("attacker-key", payload)]

Bearers ==
    {None} \cup { Some(tok.jwt) : tok \in issued }
           \cup { Some(Forged(e)) : e \in {EmailA} }

(* What rq.json() makes of a request body. *)
JsonBodies ==
    {[kind |-> "object", fields |-> EmptyDict], [kind |-> "array"],
     [kind |-> "invalid"]}
    \cup { [kind |-> "object", fields |-> [UUID |-> k]] : k \in 1..(nextUuid - 1) }

(* Requests started so far, finished or not, are fewer than MaxRequests. *)
CanStart == reqs + Len(pending) < MaxRequests

OwnerValues == {0} \cup { u.UUID : u \in users }

Init ==
    /\ users = {}
    /\ databases = {}
    /\ schedules = {}
    /\ issued = {}
    /\ now = 0
    /\ nextUuid = 1
    /\ reqs = 0
    /\ last = Idle
    /\ ident = <<>>
    /\ pending = <<>>
    /\ audit = {}

(* The clock passes the lifetime of every token issued so far. *)
TickExpire ==
    /\ now + minutes(ACCESS_TOKEN_EXPIRE_MINUTES) + TicksPerSecond
          <= minutes(MaxClockMinutes)
    /\ now' = now + minutes(ACCESS_TOKEN_EXPIRE_MINUTES) + TicksPerSecond
    /\ UNCHANGED <<users, databases, schedules, issued, nextUuid, reqs, last,
                   ident, pending, audit>>

Register ==
    /\ CanStart
    /\ \E name \in ApiNames, email \in ApiEmails, password \in Passwords :
          LET body == [UUID |-> 0, Name |-> name, Email |-> email, PW |-> password]
              r == register_user(users, body, nextUuid)
          IN  /\ users' = r.db
              /\ nextUuid' = nextUuid + r.uuids
              /\ last' = [op |-> "register", body |-> body, response |-> r.response]
    /\ reqs' = reqs + 1
    /\ UNCHANGED <<databases, schedules, issued, now, ident, pending, audit>>

Login ==
    /\ CanStart
    /\ \E id \in LoginIds, password \in Passwords :
          LET resp == login_for_access_token(users, id, password, now) IN
          /\ last' = [op |-> "login", username |-> id, password |-> password,
                      response |-> resp]
          /\ issued' =
                IF resp.status = 200 /\ resp.access_token # None
                THEN issued \cup
                       {[jwt |-> TheValue(resp.access_token),
                         iat |-> now,
                         delta |-> Some(minutes(ACCESS_TOKEN_EXPIRE_MINUTES)),
                         data |-> [sub |-> TheValue(resp.access_token).payload.sub],
                         via |-> "login"]}
                ELSE issued
    /\ reqs' = reqs + 1
    /\ UNCHANGED <<users, databases, schedules, now, nextUuid, ident, pending,
                   audit>>

(* GET /users/me/ *)
UsersMe ==
    /\ CanStart
    /\ \E bearer \in Bearers :
          LET who == get_current_user(users, bearer, now) IN
          last' = [op |-> "users/me", bearer |-> bearer,
                   response |-> IF who.status = 200
                                THEN [status |-> 200, user |-> UserView(who.user)]
                                ELSE who]
    /\ reqs' = reqs + 1
    /\ UNCHANGED <<users, databases, schedules, issued, now, nextUuid, ident,
                   pending, audit>>

(* The routes whose handler takes current_user = Depends(get_current_user) *)
(* (lines 161, 169, 175, 189).                                             *)
GuardedOps == {"database/create", "database", "schedule/create", "schedule"}

(* The request bodies of a guarded route; the list routes have none. *)
GuardedBodies(op) ==
    CASE op = "database/create" ->
            { [UUID |-> 0, DatabaseName |-> name, Owner |-> owner] :
                 name \in DatabaseNames, owner \in OwnerValues }
      [] op = "schedule/create" ->
            { [UUID |-> 0, Owner |-> owner] : owner \in OwnerValues }
      [] OTHER -> {EmptyDict}

(* The pending requests without the i-th. *)
Answered(q, i) ==
    [k \in 1..(Len(q) - 1) |-> IF k < i THEN q[k] ELSE q[k + 1]]

(* A request to a guarded route, up to the start of its handler: the       *)
(* dependency get_current_user (a plain def, run in a worker thread and    *)
(* awaited) decodes the token at the current time and looks the user up.   *)
(* The 401 it raises answers the request; the user it returns is kept for  *)
(* the handler body, which runs in a later step of the event loop.         *)
ResolveCurrentUser ==
    /\ CanStart
    /\ \E op \in GuardedOps, bearer \in Bearers :
          LET who == get_current_user(users, bearer, now) IN
          IF who.status # 200
          THEN /\ last' = [op |-> op, bearer |-> bearer, at |-> now,
                           response |-> who]
               /\ reqs' = reqs + 1
               /\ UNCHANGED pending
          ELSE /\ Len(pending) < MaxInFlight
               /\ \E body \in GuardedBodies(op) :
                     pending' = Append(pending,
                                       [op |-> op, pc |-> "handler",
                                        bearer |-> bearer, at |-> now,
                                        current_user |-> who.user,
                                        body |-> body])
               /\ UNCHANGED <<reqs, last>>
    /\ UNCHANGED <<users, databases, schedules, issued, now, nextUuid, ident,
                   audit>>

(* A request waiting at the start of the handler body of the route op. *)
AtHandler(i, op) == pending[i].pc = "handler" /\ pending[i].op = op

(* The body of create_database, lines 162-165. *)
CreateDatabase ==
    /\ \E i \in DOMAIN pending :
          /\ AtHandler(i, "database/create")
          /\ databases' = create_database(databases, pending[i].body,
                                          pending[i].current_user, nextUuid)
          /\ audit' = audit \cup
                {[uuid |-> nextUuid, kind |-> "database",
                  bearer |-> pending[i].bearer, at |-> pending[i].at,
                  body_owner |-> pending[i].body.Owner]}
          /\ last' = [op |-> "database/create", bearer |-> pending[i].bearer,
                      at |-> pending[i].at, response |-> [status |-> 200]]
          /\ pending' = Answered(pending, i)
    /\ nextUuid' = nextUuid + 1
    /\ reqs' = reqs + 1
    /\ UNCHANGED <<users, schedules, issued, now, ident>>

(* The body of get_databases, line 170. *)
GetDatabases ==
    /\ \E i \in DOMAIN pending :
          /\ AtHandler(i, "database")
          /\ last' = [op |-> "database", bearer |-> pending[i].bearer,
                      at |-> pending[i].at,
                      response |->
                          [status |-> 200,
                           rows |-> crud_get_databases(databases,
                                        pending[i].current_user.UUID)]]
          /\ pending' = Answered(pending, i)
    /\ reqs' = reqs + 1
    /\ UNCHANGED <<users, databases, schedules, issued, now, nextUuid, ident,
                   audit>>

(* The body of create_schedule, lines 176-178. *)
CreateSchedule ==
    /\ \E i \in DOMAIN pending :
          /\ AtHandler(i, "schedule/create")
          /\ schedules' = create_schedule(schedules, pending[i].body,
                                          pending[i].current_user, nextUuid)
          /\ audit' = audit \cup
                {[uuid |-> nextUuid, kind |-> "schedule",
                  bearer |-> pending[i].bearer, at |-> pending[i].at,
                  body_owner |-> pending[i].body.Owner]}
          /\ last' = [op |-> "schedule/create", bearer |-> pending[i].bearer,
                      at |-> pending[i].at, response |-> [status |-> 200]]
          /\ pending' = Answered(pending, i)
    /\ nextUuid' = nextUuid + 1
    /\ reqs' = reqs + 1
    /\ UNCHANGED <<users, databases, issued, now, ident>>

(* POST /schedule/delete up to "await rq.json()" (line 183): the handler   *)
(* has started and waits for the body; other requests run meanwhile.       *)
DeleteScheduleStart ==
    /\ CanStart
    /\ Len(pending) < MaxInFlight
    /\ \E bearer \in Bearers :
          pending' = Append(pending,
                            [op |-> "schedule/delete", pc |-> "await_body",
                             bearer |-> bearer])
    /\ UNCHANGED <<users, databases, schedules, issued, now, nextUuid, reqs,
                   last, ident, audit>>

(* The body has arrived: lines 183-185 of one waiting request. *)
DeleteScheduleResume ==
    /\ \E i \in DOMAIN pending, rq_body \in JsonBodies :
          LET r == delete_schedule(users, schedules, pending[i].bearer,
                                   rq_body, now)
          IN  /\ pending[i].pc = "await_body"
              /\ schedules' = r.rows
              /\ last' = [op |-> "schedule/delete",
                          bearer |-> pending[i].bearer,
                          body |-> rq_body,
                          response |-> r.response]
              /\ pending' = Answered(pending, i)
    /\ reqs' = reqs + 1
    /\ UNCHANGED <<users, databases, issued, now, nextUuid, ident, audit>>

(* The body of get_schedules, line 190. *)
GetSchedules ==
    /\ \E i \in DOMAIN pending :
          /\ AtHandler(i, "schedule")
          /\ last' = [op |-> "schedule", bearer |-> pending[i].bearer,
                      at |-> pending[i].at,
                      response |->
                          [status |-> 200,
                           rows |-> crud_get_schedules(schedules,
                                        pending[i].current_user.UUID)]]
          /\ pending' = Answered(pending, i)
    /\ reqs' = reqs + 1
    /\ UNCHANGED <<users, databases, schedules, issued, now, nextUuid, ident,
                   audit>>

Next ==
    \/ Register
    \/ Login
    \/ UsersMe
    \/ ResolveCurrentUser
    \/ CreateDatabase
    \/ GetDatabases
    \/ CreateSchedule
    \/ DeleteScheduleStart
    \/ DeleteScheduleResume
    \/ GetSchedules
    \/ TickExpire

Spec == Init /\ [][Next]_vars

---------------------------------------------------------------------------
(* The guarded routes and schedule/delete with two users logged in: the    *)
(* state after user A and user B registered and each logged in, A by       *)
(* email and B by name, computed with the handlers above.                  *)

EmailB == <<"b", "@", "a", ".", "a">>

NameB == <<"b", "o">>

BodyA == [UUID |-> 0, Name |-> NameA, Email |-> EmailA, PW |-> "p1"]

BodyB == [UUID |-> 0, Name |-> NameB, Email |-> EmailB, PW |-> "p2"]

TwoUsers == register_user(register_user({}, BodyA, 1).db, BodyB, 2).db

(* The record kept of the token a successful login at time t hands out. *)
LoginRecord(db, id, password, t) ==
    LET resp == login_for_access_token(db, id, password, t) IN
    [jwt |-> TheValue(resp.access_token),
     iat |-> t,
     delta |-> Some(minutes(ACCESS_TOKEN_EXPIRE_MINUTES)),
     data |-> [sub |-> TheValue(resp.access_token).payload.sub],
     via |-> "login"]

InitGuarded ==
    /\ users = TwoUsers
    /\ databases = {}
    /\ schedules = {}
    /\ issued = {LoginRecord(TwoUsers, EmailA, "p1", 0),
                 LoginRecord(TwoUsers, NameB, "p2", 0)}
    /\ now = 0
    /\ nextUuid = 3
    /\ reqs = 0
    /\ last = Idle
    /\ ident = <<>>
    /\ pending = <<>>
    /\ audit = {}

(* Requests to these routes started since the two logins. *)
MaxGuardedRequests == 2

CanStartGuarded == reqs + Len(pending) < MaxGuardedRequests

NextGuarded ==
    \/ CanStartGuarded /\ ResolveCurrentUser
    \/ CreateDatabase
    \/ GetDatabases
    \/ CreateSchedule
    \/ CanStartGuarded /\ DeleteScheduleStart
    \/ DeleteScheduleResume
    \/ GetSchedules
    \/ TickExpire

SpecGuarded == InitGuarded /\ [][NextGuarded]_vars

---------------------------------------------------------------------------
(* Properties of the API *)

LoginFailure == Unauthorized("Incorrect email or password")

(* C1 as stated: every registered user authenticates with their own email  *)
(* and password, and the email with any other password gives the failure   *)
(* value, which login answers with 401.                                    *)
C1_AsStated ==
    \A u \in users :
        /\ authenticate_user(users, u.Email, u.PW) = Some(u)
        /\ \A s \in Passwords \ {u.PW} :
              /\ authenticate_user(users, u.Email, s) = None
              /\ login_for_access_token(users, u.Email, s, now) = LoginFailure

(* The request handled by this step is one of the given operation. *)
Handled(op) == reqs' = reqs + 1 /\ last'.op = op

(* C4: a register call for an email no stored user has (and a name no      *)
(* stored user has) succeeds and adds exactly one user, with that email;   *)
(* every later register call with that email, whatever its name and        *)
(* password, is answered 400 "Email already registered" and leaves the     *)
(* stored users as they were; stored users are never removed.              *)
C4_DuplicateEmail ==
    [][ /\ users \subseteq users'
        /\ Handled("register") =>
              LET body == last'.body IN
              IF \E u \in users : u.Email = body.Email
              THEN /\ last'.response =
                         DuplicateEmail
                   /\ users' = users
              ELSE (\A u \in users : u.Name # body.Name)
                   => /\ last'.response.status = 200
                      /\ users' = users \cup {[body EXCEPT !.UUID = nextUuid]}
                      /\ Cardinality(users') = Cardinality(users) + 1
      ]_vars

(* The second of two register calls with one email, under another name     *)
(* and another password, was refused and the first call's user is the      *)
(* only one stored.                                                        *)
C4_Witness ==
    /\ last.op = "register"
    /\ last.response = DuplicateEmail
    /\ reqs = 2
    /\ Cardinality(users) = 1
    /\ \E u \in users : /\ u.Email = last.body.Email
                        /\ u.Name # last.body.Name
                        /\ u.PW # last.body.PW

(* A bearer token that login issued, whose signed expiry has not passed at *)
(* time t, and whose subject is the email of stored user u.                *)
IssuedTo(bearer, u, t) ==
    /\ bearer # None
    /\ \E tok \in issued :
          /\ tok.via = "login"
          /\ tok.jwt = TheValue(bearer)
          /\ tok.data.sub = u.Email
          /\ to_seconds(t) <= to_seconds(tok.iat + minutes(ACCESS_TOKEN_EXPIRE_MINUTES))

(* C5: every stored database and schedule was created by a request that    *)
(* carried a token login had issued to a stored user, unexpired when       *)
(* get_current_user validated it, and its Owner is that user's UUID,       *)
(* whatever Owner the request body held; no user with another UUID owns    *)
(* it.                                                                     *)
C5_OwnerStamping ==
    \A row \in databases \cup schedules :
        \E a \in audit, u \in users :
            /\ a.uuid = row.UUID
            /\ IssuedTo(a.bearer, u, a.at)
            /\ row.Owner = u.UUID
            /\ \A v \in users : v.UUID # u.UUID => row.Owner # v.UUID

(* User A created a database with user B's UUID in the body's Owner: the  *)
(* row is A's, and B's list of databases is empty.                         *)
C5_Witness ==
    \E A \in users, B \in users, d \in databases, ad \in audit :
        /\ A.UUID # B.UUID
        /\ ad.uuid = d.UUID
        /\ ad.body_owner = B.UUID
        /\ IssuedTo(ad.bearer, A, ad.at)
        /\ d.Owner = A.UUID
        /\ crud_get_databases(databases, B.UUID) = {}

(* The lookup authenticate_user makes finds nobody. *)
UnknownIdentifier(id) ==
    IF CodePattern(id) THEN \A u \in users : u.Email # id
    ELSE \A u \in users : u.Name # id

(* The lookup finds a user whose password is not the one given. *)
WrongSecret(id, password) ==
    IF CodePattern(id) THEN \E u \in users : u.Email = id /\ u.PW # password
    ELSE \E u \in users : u.Name = id /\ u.PW # password

(* C6: a login whose identifier is unknown and a login whose identifier is *)
(* known but whose secret is wrong are not told apart: each gets the       *)
(* failure value from authenticate_user and one and the same response,     *)
(* 401 with detail "Incorrect email or password" and WWW-Authenticate:     *)
(* Bearer, which holds no access token.                                    *)
C6_NoEnumeration ==
    /\ \A id \in LoginIds, password \in Passwords :
          (UnknownIdentifier(id) \/ WrongSecret(id, password)) =>
              /\ authenticate_user(users, id, password) = None
              /\ login_for_access_token(users, id, password, now) = LoginFailure
    /\ (/\ last.op = "login"
        /\ \/ UnknownIdentifier(last.username)
           \/ WrongSecret(last.username, last.password))
       => /\ last.response = LoginFailure
          /\ "access_token" \notin DOMAIN last.response

(* With one user stored, a login with that user's email and a wrong secret *)
(* was refused, while another identifier is unknown altogether.            *)
C6_Witness ==
    /\ last.op = "login"
    /\ last.username = EmailA
    /\ WrongSecret(last.username, last.password)
    /\ last.response = LoginFailure
    /\ \E id \in LoginIds : UnknownIdentifier(id)
    /\ issued = {}

(* The bearer is a token login issued to a stored user, unexpired at t. *)
Authenticated(bearer, t) == \E u \in users : IssuedTo(bearer, u, t)

(* C8: a schedule/delete request, once its body has arrived, removes the   *)
(* schedule its body names, whether it carries no token, an invalid one,   *)
(* or the token of a user who does not own the schedule (a body that is no *)
(* JSON object is answered 500 and removes nothing); whereas the handler   *)
(* body of a create or list route for databases or schedules is reached,   *)
(* and the request answered 200, only when the request carried a token     *)
(* issued by login to a stored user and not expired when get_current_user  *)
(* validated it; a request without one is answered 401 and changes no      *)
(* table.                                                                  *)
C8_DeleteUnguarded ==
    [][ /\ Handled("schedule/delete") =>
              IF last'.body.kind = "object"
              THEN /\ last'.response.status = 200
                   /\ schedules' =
                         { s \in schedules :
                             Some(s.UUID) # dict_get(last'.body.fields, "UUID") }
              ELSE /\ last'.response.status = 500
                   /\ schedules' = schedules
        /\ \A op \in GuardedOps :
              Handled(op) =>
                  /\ last'.at <= now
                  /\ last'.response.status = 200
                        <=> Authenticated(last'.bearer, last'.at)
                  /\ ~ Authenticated(last'.bearer, last'.at) =>
                        /\ last'.response.status = 401
                        /\ UNCHANGED <<databases, schedules>>
        /\ \A i \in DOMAIN pending' :
              pending'[i].pc = "handler" =>
                  /\ pending'[i].at <= now
                  /\ Authenticated(pending'[i].bearer, pending'[i].at)
      ]_vars

(* A schedule user A created, the only one stored, is gone after a delete *)
(* request that carried the token of user B, valid when the request was    *)
(* answered: A's list of schedules is empty.                               *)
C8_Witness ==
    \E A \in users, B \in users, c \in audit :
        /\ A.UUID # B.UUID
        /\ c.kind = "schedule"
        /\ IssuedTo(c.bearer, A, c.at)
        /\ last.op = "schedule/delete"
        /\ IssuedTo(last.bearer, B, now)
        /\ get_current_user(users, last.bearer, now)
              = [status |-> 200, user |-> B]
        /\ last.body = [kind |-> "object", fields |-> [UUID |-> c.uuid]]
        /\ last.response.status = 200
        /\ reqs = 2
        /\ crud_get_schedules(schedules, A.UUID) = {}

---------------------------------------------------------------------------
(* Concurrent registration: up to MaxInFlight register requests in flight  *)
(* at a time. A request arrives (its body is read and get_db is resolved,  *)
(* both awaited) and waits for the event loop; the handler body, lines     *)
(* 152-156, then runs as one step. Requests that arrived in one order may  *)
(* run their bodies in another.                                            *)

RegisterBodies ==
    { [UUID |-> 0, Name |-> name, Email |-> email, PW |-> password] :
          name \in ApiNames, email \in ApiEmails, password \in Passwords }

InitConc ==
    /\ users = {}
    /\ databases = {}
    /\ schedules = {}
    /\ issued = {}
    /\ now = 0
    /\ nextUuid = 1
    /\ reqs = 0
    /\ last = Idle
    /\ ident = <<>>
    /\ pending = <<>>
    /\ audit = {}

(* A register request arrives: lines 150-151, up to the handler body. *)
RegisterArrive ==
    /\ Len(pending) < MaxInFlight
    /\ \E body \in RegisterBodies :
          pending' = Append(pending,
                            [op |-> "register", pc |-> "handler",
                             body |-> body, response |-> None])
    /\ UNCHANGED <<users, databases, schedules, issued, now, nextUuid, reqs,
                   last, ident, audit>>

(* The handler body of one waiting request, lines 152-156. The answered    *)
(* request stays in the list with its response.                            *)
RegisterBody ==
    /\ \E i \in DOMAIN pending :
          /\ pending[i].pc = "handler"
          /\ LET r == register_user(users, pending[i].body, nextUuid) IN
             /\ users' = r.db
             /\ nextUuid' = nextUuid + r.uuids
             /\ last' = [op |-> "register", body |-> pending[i].body,
                         response |-> r.response]
             /\ pending' = [pending EXCEPT ![i].pc = "done",
                                           ![i].response = Some(r.response)]
    /\ reqs' = reqs + 1
    /\ UNCHANGED <<databases, schedules, issued, now, ident, audit>>

NextConc == RegisterArrive \/ RegisterBody

SpecConc == InitConc /\ [][NextConc]_vars

Created(p) == p.response # None /\ TheValue(p.response).status = 200

(* C10: with register requests in flight at the same time and their        *)
(* handler bodies run in any order, no two stored users share an email and *)
(* no two share a name; of two requests with the same email at most one    *)
(* ends with a user created.                                               *)
C10_Uniqueness ==
    /\ \A u \in users, v \in users :
          u # v => u.Email # v.Email /\ u.Name # v.Name
    /\ \A i \in DOMAIN pending, j \in DOMAIN pending :
          (i # j /\ pending[i].body.Email = pending[j].body.Email)
          => ~ (Created(pending[i]) /\ Created(pending[j]))

(* Two requests with one email and different names were in flight          *)
(* together: the one that arrived second ran first and created its user,   *)
(* the one that arrived first was refused and nothing more was stored.     *)
C10_Witness ==
    /\ Len(pending) = 2
    /\ pending[1].body.Email = pending[2].body.Email
    /\ pending[1].body.Name # pending[2].body.Name
    /\ Created(pending[2])
    /\ pending[1].response = Some(DuplicateEmail)
    /\ Cardinality(users) = 1
    /\ \E u \in users : u.Name = pending[2].body.Name

=============================================================================
